---- MODULE Spec2Model ----
(***************************************************************************)
(* Model of the observers Manager                                          *)
(* (stack-operator/pkg/controller/elasticsearch/observer/manager.go).      *)
(* Goroutines call Observe, StopObserving and List on one shared Manager;  *)
(* every statement that touches the lock, the map or an observer is one    *)
(* step, so that all interleavings of the calls are explored.              *)
(***************************************************************************)
EXTENDS Integers, Sequences, FiniteSets, TLC

\* Bound on the number of NewObserver calls in one behaviour.
MaxObservers == 2

Goroutines == {"g1", "g2"}
\* types.NamespacedName values used as cluster names.
Clusters == {"A", "B"}
\* *client.Client values: distinct pointers, two of them with the same settings.
Clients == {[ptr |-> 1, caCert |-> "ca1"],
            [ptr |-> 2, caCert |-> "ca1"],
            [ptr |-> 3, caCert |-> "ca2"]}

None == 0
NoName == "-"
NoClient == [ptr |-> 0, caCert |-> "-"]

VARIABLES
  observers,   \* Manager.observers: cluster name -> observer (None: no entry)
  lock,        \* Manager.lock: [readers, writer]
  watchers,    \* every Observer built by NewObserver, in creation order
  call,        \* per goroutine: the running call, its position and its locals
  hot,         \* history: per cluster, the client of the Observe calls so far
  retired,     \* history: observers stopped by a StopObserving that returned
  scen,        \* history: progress of the sequential end-to-end scenario
  twin,        \* history: a teardown followed alone, and the state it began in
  recording,   \* the histories this specification records
  capacity     \* the number of NewObserver calls this specification allows

vars == <<observers, lock, watchers, call, hot, retired, scen, twin, recording, capacity>>
params == <<recording, capacity>>
histories == <<hot, retired, scen, twin, params>>

----------------------------------------------------------------------------
\* client.Client.Equal: two clients are interchangeable iff their settings agree.
Equal(c1, c2) == c1.caCert = c2.caCert

\* sync.RWMutex
CanRLock(l) == l.writer = NoName
RLock(l, g) == [l EXCEPT !.readers = @ \cup {g}]
RUnlock(l, g) == [l EXCEPT !.readers = @ \ {g}]
CanLock(l) == l.writer = NoName /\ l.readers = {}
Lock(l, g) == [l EXCEPT !.writer = g]
Unlock(l, g) == [l EXCEPT !.writer = NoName]

\* NewObserver(clusterName, esClient, settings): a running observer.
NewObserver(cn, ec) == [clusterName |-> cn, esClient |-> ec, stopped |-> FALSE]

\* Observer.Stop() has returned for w.
ObserverStop(ws, w) == [ws EXCEPT ![w].stopped = TRUE]

Stopped(w) == watchers[w].stopped
Live(w) == ~watchers[w].stopped
WatcherIds == 1..Len(watchers)

\* observer, exists := m.observers[clusterName]
MapLookup(m, cn) == [observer |-> m[cn], exists |-> m[cn] # None]
\* Mutation: the insert keeps an entry that is already there.
MapInsertIfAbsent(m, cn, w) == IF m[cn] = None THEN [m EXCEPT ![cn] = w] ELSE m
\* Mutation: the insert writes the observer under every cluster name.
MapInsertEverywhere(m, cn, w) == [c \in DOMAIN m |-> w]
\* m.observers[clusterName] = observer
MapInsert(m, cn, w) == [m EXCEPT ![cn] = w]
\* Mutation: the delete is forgotten.
MapDeleteKeeps(m, cn) == m
\* delete(m.observers, clusterName)
MapDelete(m, cn) == [m EXCEPT ![cn] = None]

\* Mutation: the switch returns any observer it finds, without the Equal test.
ObserveBranchNoReplace(exists, observer, ec) ==
  IF ~exists THEN "create" ELSE "reuse"
\* Mutation: the Equal test is inverted.
ObserveBranchInverted(exists, observer, ec) ==
  IF ~exists THEN "create"
  ELSE IF Equal(watchers[observer].esClient, ec) THEN "replace"
  ELSE "reuse"
\* Mutation: the switch replaces every observer it finds, Equal client or not.
ObserveBranchNoEqual(exists, observer, ec) ==
  IF ~exists THEN "create" ELSE "replace"
\* The switch of Observe.
ObserveBranch(exists, observer, ec) ==
  IF ~exists THEN "create"
  ELSE IF ~Equal(watchers[observer].esClient, ec) THEN "replace"
  ELSE "reuse"

\* Mutation: the early return is taken only when an observer was found.
StopObservingReturnsEarlyInverted(exists) == exists
\* if !exists { return } of StopObserving.
StopObservingReturnsEarly(exists) == ~exists

\* Mutation: the loop skips the names whose observer has been stopped.
ListNamesLive(m) == {cn \in Clusters : m[cn] # None /\ ~watchers[m[cn]].stopped}
\* The names List collects from the map.
ListNames(m) == {cn \in Clusters : m[cn] # None}

IdleCall == [op |-> "none", pc |-> "idle", clusterName |-> NoName,
             esClient |-> NoClient, afterStop |-> FALSE,
             observer |-> None, exists |-> FALSE,
             stopObserver |-> None, stopExists |-> FALSE,
             newObserver |-> None, result |-> None, list |-> {}]

AllIdle == \A g \in Goroutines : call[g].pc = "idle"

\* Observe calls in progress that have not built their observer yet.
PendingCreates ==
  Cardinality({g \in Goroutines : call[g].op = "Observe" /\ call[g].newObserver = None})

----------------------------------------------------------------------------
\* History of the end-to-end scenario: 2k after k calls of it returned,
\* 2k+1 inside call k+1, -1 once the run left the scenario.
ScenStart(o, cn, ec) ==
  IF scen = -1 \/ ~AllIdle THEN -1
  ELSE IF scen = 0 THEN (IF o = "Observe" THEN 1 ELSE -1)
  ELSE IF Len(watchers) = 0 THEN -1
  ELSE IF scen = 2 THEN
    (IF o = "Observe" /\ cn = watchers[1].clusterName
        /\ Equal(watchers[1].esClient, ec) THEN 3 ELSE -1)
  ELSE IF scen = 4 THEN
    (IF o = "Observe" /\ cn = watchers[1].clusterName
        /\ ~Equal(watchers[1].esClient, ec) THEN 5 ELSE -1)
  ELSE IF scen = 6 THEN
    (IF o = "StopObserving" /\ cn = watchers[1].clusterName THEN 7 ELSE -1)
  ELSE IF scen = 8 THEN (IF o = "List" THEN 9 ELSE -1)
  ELSE -1

ScenReturn == IF scen = -1 THEN -1 ELSE scen + 1

\* History of the two teardown triggers, followed while one caller runs
\* alone from a state where name cn has a running observer w1:
\*   path 1: inside Observe(cn, ec), ec not Equal to the client of w1;
\*   path 2: inside StopObserving(cn); 3: it returned; 4: inside the
\*   Observe(cn, ec) that follows, ec not Equal to the client of w1.
\* ws and obs are the observers and the map of the state the path began in.
NoTwin == [path |-> 0, w1 |-> None, ws |-> <<>>, obs |-> [cn \in Clusters |-> None]]

TwinFresh(o, cn, ec) ==
  IF cn \in Clusters /\ observers[cn] # None /\ Live(observers[cn])
  THEN IF o = "Observe" /\ ~Equal(watchers[observers[cn]].esClient, ec)
       THEN [path |-> 1, w1 |-> observers[cn], ws |-> watchers, obs |-> observers]
       ELSE IF o = "StopObserving"
       THEN [path |-> 2, w1 |-> observers[cn], ws |-> watchers, obs |-> observers]
       ELSE NoTwin
  ELSE NoTwin

TwinStart(o, cn, ec) ==
  IF "twin" \notin recording \/ ~AllIdle THEN NoTwin
  ELSE IF twin.path = 3 /\ o = "Observe" /\ cn = twin.ws[twin.w1].clusterName
          /\ ~Equal(twin.ws[twin.w1].esClient, ec)
       THEN [twin EXCEPT !.path = 4]
  ELSE TwinFresh(o, cn, ec)

TwinReturn == IF twin.path = 2 THEN [twin EXCEPT !.path = 3] ELSE NoTwin

\* History of the clients of the Observe calls on one cluster name: the
\* first client while all calls supplied Equal clients and StopObserving was
\* not called, Churned afterwards.
Churned == [ptr |-> 0, caCert |-> "changed"]
HotObserve(h, ec) ==
  IF h = NoClient THEN ec
  ELSE IF h # Churned /\ Equal(h, ec) THEN h
  ELSE Churned

----------------------------------------------------------------------------
InitWith(rec, cap) ==
  /\ observers = [cn \in Clusters |-> None]
  /\ lock = [readers |-> {}, writer |-> NoName]
  /\ watchers = <<>>
  /\ call = [g \in Goroutines |-> IdleCall]
  /\ hot = [cn \in Clusters |-> NoClient]
  /\ retired = {}
  /\ scen = IF "scen" \in rec THEN 0 ELSE -1
  /\ twin = NoTwin
  /\ recording = rec
  /\ capacity = cap

Init == InitWith({}, MaxObservers)

\* History: this Observe call begins after a StopObserving call for the same
\* name has returned.
BeganAfterStop(cn) == \E w \in retired : watchers[w].clusterName = cn

\* The cluster names the callers of this specification pass.
CalledNames == IF "oneName" \in recording THEN {"A"} ELSE Clusters

\* A goroutine calls Observe(clusterName, esClient).
CallObserve(g, cn, ec) ==
  /\ call[g].pc = "idle"
  /\ cn \in CalledNames
  /\ Len(watchers) + PendingCreates < capacity
  /\ call' = [call EXCEPT ![g] = [IdleCall EXCEPT !.op = "Observe", !.pc = "O_RLock",
                                   !.clusterName = cn, !.esClient = ec,
                                   !.afterStop = BeganAfterStop(cn)]]
  /\ hot' = IF "hot" \in recording THEN [hot EXCEPT ![cn] = HotObserve(@, ec)] ELSE hot
  /\ scen' = ScenStart("Observe", cn, ec)
  /\ twin' = TwinStart("Observe", cn, ec)
  /\ UNCHANGED <<observers, lock, watchers, retired, params>>

\* m.lock.RLock(); observer, exists := m.observers[clusterName]
ObserveRLock(g) ==
  /\ call[g].pc = "O_RLock"
  /\ CanRLock(lock)
  /\ lock' = RLock(lock, g)
  /\ LET l == MapLookup(observers, call[g].clusterName)
     IN call' = [call EXCEPT ![g].pc = "O_RUnlock",
                             ![g].observer = l.observer, ![g].exists = l.exists]
  /\ UNCHANGED <<observers, watchers, histories>>

\* Mutation: the replacing branch goes straight to createObserver and leaves
\* the old observer to the insert.
ObserveRUnlockNoStop(g) ==
  /\ call[g].pc = "O_RUnlock"
  /\ lock' = RUnlock(lock, g)
  /\ LET b == ObserveBranch(call[g].exists, call[g].observer, call[g].esClient)
     IN call' = [call EXCEPT
                   ![g].pc = IF b = "reuse" THEN "O_Return" ELSE "C_New",
                   ![g].result = IF b = "reuse" THEN call[g].observer ELSE None]
  /\ UNCHANGED <<observers, watchers, histories>>

\* m.lock.RUnlock(), then the switch picks the branch.
ObserveRUnlock(g) ==
  /\ call[g].pc = "O_RUnlock"
  /\ lock' = RUnlock(lock, g)
  /\ LET b == ObserveBranch(call[g].exists, call[g].observer, call[g].esClient)
     IN call' = [call EXCEPT
                   ![g].pc = IF b = "create" THEN "C_New"
                             ELSE IF b = "replace" THEN "S_RLock"
                             ELSE "O_Return",
                   ![g].result = IF b = "reuse" THEN call[g].observer ELSE None]
  /\ UNCHANGED <<observers, watchers, histories>>

\* createObserver: observer := NewObserver(clusterName, esClient, m.settings)
CreateNew(g) ==
  /\ call[g].pc = "C_New"
  /\ Len(watchers) < capacity
  /\ watchers' = Append(watchers, NewObserver(call[g].clusterName, call[g].esClient))
  /\ call' = [call EXCEPT ![g].pc = "C_Lock", ![g].newObserver = Len(watchers) + 1]
  /\ UNCHANGED <<observers, lock, histories>>

\* Mutation: the entry is written without taking the write lock.
CreateLockNoLock(g) ==
  /\ call[g].pc = "C_Lock"
  /\ observers' = MapInsert(observers, call[g].clusterName, call[g].newObserver)
  /\ call' = [call EXCEPT ![g].pc = "C_Unlock"]
  /\ UNCHANGED <<lock, watchers, histories>>

\* createObserver: m.lock.Lock(); m.observers[clusterName] = observer
CreateLock(g) ==
  /\ call[g].pc = "C_Lock"
  /\ CanLock(lock)
  /\ lock' = Lock(lock, g)
  /\ observers' = MapInsert(observers, call[g].clusterName, call[g].newObserver)
  /\ call' = [call EXCEPT ![g].pc = "C_Unlock"]
  /\ UNCHANGED <<watchers, histories>>

\* Mutation: createObserver returns without m.lock.Unlock().
CreateUnlockForgotten(g) ==
  /\ call[g].pc = "C_Unlock"
  /\ call' = [call EXCEPT ![g].pc = "O_Return", ![g].result = call[g].newObserver]
  /\ UNCHANGED <<observers, lock, watchers, histories>>

\* createObserver: m.lock.Unlock(); return observer
CreateUnlock(g) ==
  /\ call[g].pc = "C_Unlock"
  /\ lock' = Unlock(lock, g)
  /\ call' = [call EXCEPT ![g].pc = "O_Return", ![g].result = call[g].newObserver]
  /\ UNCHANGED <<observers, watchers, histories>>

\* Observe returns its observer to the caller.
ObserveReturn(g) ==
  /\ call[g].pc = "O_Return"
  /\ call' = [call EXCEPT ![g] = IdleCall]
  /\ scen' = ScenReturn
  /\ twin' = TwinReturn
  /\ UNCHANGED <<observers, lock, watchers, hot, retired, params>>

\* A goroutine calls StopObserving(clusterName).
CallStopObserving(g, cn) ==
  /\ call[g].pc = "idle"
  /\ cn \in CalledNames
  /\ call' = [call EXCEPT ![g] = [IdleCall EXCEPT !.op = "StopObserving", !.pc = "S_RLock",
                                   !.clusterName = cn]]
  /\ hot' = IF "hot" \in recording THEN [hot EXCEPT ![cn] = Churned] ELSE hot
  /\ scen' = ScenStart("StopObserving", cn, NoClient)
  /\ twin' = TwinStart("StopObserving", cn, NoClient)
  /\ UNCHANGED <<observers, lock, watchers, retired, params>>

\* StopObserving: m.lock.RLock(); observer, exists := m.observers[clusterName]
StopRLock(g) ==
  /\ call[g].pc = "S_RLock"
  /\ CanRLock(lock)
  /\ lock' = RLock(lock, g)
  /\ LET l == MapLookup(observers, call[g].clusterName)
     IN call' = [call EXCEPT ![g].pc = "S_RUnlock",
                             ![g].stopObserver = l.observer, ![g].stopExists = l.exists]
  /\ UNCHANGED <<observers, watchers, histories>>

\* Where StopObserving returns to: its caller, or the createObserver call
\* that follows it in the replacing branch of Observe.
AfterStopObserving(g) == IF call[g].op = "Observe" THEN "C_New" ELSE "S_Return"

\* The history of the observers a returned StopObserving call has stopped.
Retire(g) ==
  IF "stop" \in recording /\ call[g].stopExists
  THEN retired \cup {call[g].stopObserver} ELSE retired

\* Mutation: the read lock is released by a defer, at the end of StopObserving.
StopRUnlockDeferred(g) ==
  /\ call[g].pc = "S_RUnlock"
  /\ call' = [call EXCEPT ![g].pc = IF StopObservingReturnsEarly(call[g].stopExists)
                                    THEN AfterStopObserving(g) ELSE "S_Stop"]
  /\ UNCHANGED <<observers, lock, watchers, histories>>

\* StopObserving: m.lock.RUnlock(); if !exists { return }; otherwise
\* observer.Stop() is entered, which blocks until the observer has ceased.
StopRUnlock(g) ==
  /\ call[g].pc = "S_RUnlock"
  /\ lock' = RUnlock(lock, g)
  /\ call' = [call EXCEPT ![g].pc = IF StopObservingReturnsEarly(call[g].stopExists)
                                    THEN AfterStopObserving(g) ELSE "S_Stop"]
  /\ UNCHANGED <<observers, watchers, histories>>

\* StopObserving: observer.Stop() returns.
StopEnd(g) ==
  /\ call[g].pc = "S_Stop"
  /\ watchers' = ObserverStop(watchers, call[g].stopObserver)
  /\ call' = [call EXCEPT ![g].pc = "S_Lock"]
  /\ UNCHANGED <<observers, lock, histories>>

\* Mutation: the write lock is taken but the entry is left in the map.
StopLockNoDelete(g) ==
  /\ call[g].pc = "S_Lock"
  /\ CanLock(lock)
  /\ lock' = Lock(lock, g)
  /\ observers' = observers
  /\ call' = [call EXCEPT ![g].pc = "S_Unlock"]
  /\ UNCHANGED <<watchers, histories>>

\* StopObserving: m.lock.Lock(); delete(m.observers, clusterName)
StopLock(g) ==
  /\ call[g].pc = "S_Lock"
  /\ CanLock(lock)
  /\ lock' = Lock(lock, g)
  /\ observers' = MapDelete(observers, call[g].clusterName)
  /\ call' = [call EXCEPT ![g].pc = "S_Unlock"]
  /\ UNCHANGED <<watchers, histories>>

\* StopObserving: m.lock.Unlock(), and the function ends.
StopUnlock(g) ==
  /\ call[g].pc = "S_Unlock"
  /\ lock' = Unlock(lock, g)
  /\ call' = [call EXCEPT ![g].pc = AfterStopObserving(g)]
  /\ retired' = IF call[g].op = "Observe" THEN Retire(g) ELSE retired
  /\ UNCHANGED <<observers, watchers, hot, scen, twin, params>>

\* StopObserving returns to the caller.
StopReturn(g) ==
  /\ call[g].pc = "S_Return"
  /\ call' = [call EXCEPT ![g] = IdleCall]
  /\ retired' = Retire(g)
  /\ scen' = ScenReturn
  /\ twin' = TwinReturn
  /\ UNCHANGED <<observers, lock, watchers, hot, params>>

\* A goroutine calls List().
CallList(g) ==
  /\ call[g].pc = "idle"
  /\ call' = [call EXCEPT ![g] = [IdleCall EXCEPT !.op = "List", !.pc = "L_RLock"]]
  /\ scen' = ScenStart("List", NoName, NoClient)
  /\ twin' = TwinStart("List", NoName, NoClient)
  /\ UNCHANGED <<observers, lock, watchers, hot, retired, params>>

\* List: m.lock.RLock(); the loop appends every name of the map to list.
ListRLock(g) ==
  /\ call[g].pc = "L_RLock"
  /\ CanRLock(lock)
  /\ lock' = RLock(lock, g)
  /\ call' = [call EXCEPT ![g].pc = "L_RUnlock", ![g].list = ListNames(observers)]
  /\ UNCHANGED <<observers, watchers, histories>>

\* List: the deferred m.lock.RUnlock() runs at the return statement.
ListRUnlock(g) ==
  /\ call[g].pc = "L_RUnlock"
  /\ lock' = RUnlock(lock, g)
  /\ call' = [call EXCEPT ![g].pc = "L_Return"]
  /\ UNCHANGED <<observers, watchers, histories>>

\* List returns list to the caller.
ListReturn(g) ==
  /\ call[g].pc = "L_Return"
  /\ call' = [call EXCEPT ![g] = IdleCall]
  /\ scen' = ScenReturn
  /\ twin' = TwinReturn
  /\ UNCHANGED <<observers, lock, watchers, hot, retired, params>>

Next ==
  \E g \in Goroutines :
    \/ \E cn \in Clusters, ec \in Clients : CallObserve(g, cn, ec)
    \/ ObserveRLock(g)
    \/ ObserveRUnlock(g)
    \/ CreateNew(g)
    \/ CreateLock(g)
    \/ CreateUnlock(g)
    \/ ObserveReturn(g)
    \/ \E cn \in Clusters : CallStopObserving(g, cn)
    \/ StopRLock(g)
    \/ StopRUnlock(g)
    \/ StopEnd(g)
    \/ StopLock(g)
    \/ StopUnlock(g)
    \/ StopReturn(g)
    \/ CallList(g)
    \/ ListRLock(g)
    \/ ListRUnlock(g)
    \/ ListReturn(g)

Spec == Init /\ [][Next]_vars

\* The steps of a running call that wait for the lock.
Acquire(g) ==
  \/ ObserveRLock(g)
  \/ CreateLock(g)
  \/ StopRLock(g)
  \/ StopLock(g)
  \/ ListRLock(g)

\* The steps of a running call that wait for nothing but, in StopEnd, for
\* observer.Stop() to return.
Proceed(g) ==
  \/ ObserveRUnlock(g)
  \/ CreateNew(g)
  \/ CreateUnlock(g)
  \/ ObserveReturn(g)
  \/ StopRUnlock(g)
  \/ StopEnd(g)
  \/ StopUnlock(g)
  \/ StopReturn(g)
  \/ ListRUnlock(g)
  \/ ListReturn(g)

\* The same program where every goroutine that can run does run, every
\* observer.Stop() returns and a goroutine that waits for the lock gets it if
\* the lock is free again and again; callers may stop calling at any time.
\* All calls are for one cluster name: the lock they wait for is the same
\* for every name.
SpecFair ==
  /\ InitWith({"oneName"}, MaxObservers)
  /\ [][Next]_vars
  /\ \A g \in Goroutines : WF_vars(Proceed(g)) /\ SF_vars(Acquire(g))

\* The same program, with the history of the clients of the Observe calls.
SpecHot == InitWith({"hot"}, MaxObservers) /\ [][Next]_vars
\* The same program, with the history of the observers that returned
\* StopObserving calls have stopped.
SpecStop == InitWith({"stop"}, MaxObservers) /\ [][Next]_vars
\* The same program, allowed one more NewObserver call.
SpecMore == InitWith({}, MaxObservers + 1) /\ [][Next]_vars
\* The same program, with the history of the two teardown triggers.
SpecTwin == InitWith({"twin"}, MaxObservers) /\ [][Next]_vars
\* The same program, with the history of the end-to-end scenario.
SpecScen == InitWith({"scen"}, MaxObservers) /\ [][Next]_vars

----------------------------------------------------------------------------
LiveObserversOf(cn) == {w \in WatcherIds : watchers[w].clusterName = cn /\ Live(w)}
ObserversOf(cn) == {w \in WatcherIds : watchers[w].clusterName = cn}

\* C1: at every instant at most one observer that NewObserver built and
\* that has not been stopped exists per cluster name.
C1_AtMostOneLiveObserver ==
  \A cn \in Clusters : Cardinality(LiveObserversOf(cn)) <= 1

\* C2: once every call has returned, every observer ever built is stopped
\* or is the one the map holds under its cluster name.
C2_NoLeakAtQuiescence ==
  AllIdle => \A w \in WatcherIds :
               Live(w) => observers[watchers[w].clusterName] = w

\* C3: while every Observe call on a cluster name supplied Equal clients
\* and StopObserving was never called on it, at most one observer has been
\* built for it.
C3_NoChurn ==
  \A cn \in Clusters : hot[cn] # Churned => Cardinality(ObserversOf(cn)) <= 1

\* C4: an Observe call that found an observer whose client is not Equal to
\* the supplied one returns with that old observer stopped and with one new
\* observer, built by the call for the supplied cluster name and client.
C4_ReplacementStopsOld ==
  \A g \in Goroutines :
    (call[g].pc = "O_Return" /\ call[g].exists /\ call[g].newObserver # None) =>
      /\ Stopped(call[g].observer)
      /\ call[g].result = call[g].newObserver
      /\ watchers[call[g].newObserver].clusterName = call[g].clusterName
      /\ watchers[call[g].newObserver].esClient = call[g].esClient

\* C5 as stated: when StopObserving(id) returns the map has no entry for id,
\* and an Observe(id) call that begins after such a return does not return
\* a stopped observer.
C5_AbsentAfterStop ==
  /\ \A g \in Goroutines :
       call[g].pc = "S_Return" => observers[call[g].clusterName] = None
  /\ \A g \in Goroutines :
       (call[g].pc = "O_Return" /\ call[g].afterStop) => Live(call[g].result)

\* C5 amended: an observer stopped by a StopObserving call that has returned
\* is never the map's entry again, and no lookup of Observe made after that
\* return finds it.
C5_StoppedNeverReused ==
  /\ [](\A w \in retired : observers[watchers[w].clusterName] # w)
  /\ [][\A g \in Goroutines :
          (call[g].pc = "O_RLock" /\ call'[g].pc = "O_RUnlock") =>
            call'[g].observer \notin retired]_vars

C5_Witness ==
  \E g \in Goroutines :
    /\ call[g].pc = "O_Return"
    /\ call[g].afterStop
    /\ call[g].newObserver # None
    /\ \E w \in retired : watchers[w].clusterName = call[g].clusterName

\* C6: a StopObserving call whose lookup finds no observer stops nothing,
\* takes no write lock and leaves the map as it is: only a call that found
\* an observer reaches Stop(), Lock() or the delete, the lookup steps change
\* neither map, observers nor the writer, and the delete leaves no entry
\* for a second call to find.
C6_StopObservingIdempotent ==
  /\ [](\A g \in Goroutines :
          call[g].pc \in {"S_Stop", "S_Lock", "S_Unlock"} => call[g].stopExists)
  /\ [][\A g \in Goroutines :
          /\ (call[g].pc \in {"S_RLock", "S_RUnlock"} /\ call'[g] # call[g]) =>
               /\ observers' = observers
               /\ watchers' = watchers
               /\ lock'.writer = lock.writer
          /\ (call[g].pc = "S_RUnlock" /\ call'[g] # call[g] /\ ~call[g].stopExists) =>
               call'[g].pc = AfterStopObserving(g)
          /\ (call[g].pc = "S_Lock" /\ call'[g] # call[g]) =>
               observers'[call[g].clusterName] = None]_vars

C6_Witness ==
  \E g \in Goroutines :
    /\ call[g].pc = "S_Return"
    /\ ~call[g].stopExists
    /\ \E w \in ObserversOf(call[g].clusterName) : Stopped(w)

\* C7 as stated: no entry of the map refers to a stopped observer.
C7_NoStoppedEntry ==
  \A cn \in Clusters : observers[cn] # None => Live(observers[cn])

\* C7 amended: an entry of the map refers to a stopped observer only while
\* a StopObserving call for that name is between the return of its Stop()
\* and its delete.
C7_StoppedEntryOnlyInWindow ==
  \A cn \in Clusters :
    (observers[cn] # None /\ Stopped(observers[cn])) =>
      \E g \in Goroutines :
        /\ call[g].pc = "S_Lock"
        /\ call[g].clusterName = cn
        /\ call[g].stopObserver = observers[cn]

C7_Witness ==
  \E cn \in Clusters : observers[cn] # None /\ Stopped(observers[cn])

\* C8: a goroutine inside observer.Stop() holds the Manager's lock neither
\* for reading nor for writing, so the lock is free for the other callers.
C8_StopOutsideLock ==
  \A g \in Goroutines :
    call[g].pc = "S_Stop" => (g \notin lock.readers /\ lock.writer # g)

\* g is blocked in Stop() for one cluster while another goroutine has taken
\* the write lock for a different cluster.
C8_Witness ==
  \E g, h \in Goroutines :
    /\ call[g].pc = "S_Stop"
    /\ call[h].pc = "C_Unlock"
    /\ lock.writer = h
    /\ call[h].clusterName # call[g].clusterName

\* C9: a step of an Observe or StopObserving call for one cluster name
\* leaves the map entry of every other name as it is, and builds or stops
\* only observers of its own name.
C9_OtherClustersUntouched ==
  [][\A g \in Goroutines :
       (call[g].op \in {"Observe", "StopObserving"} /\ call'[g] # call[g]) =>
         /\ \A cn \in Clusters \ {call[g].clusterName} : observers'[cn] = observers[cn]
         /\ \A w \in 1..Len(watchers') :
              (w > Len(watchers) \/ watchers'[w] # watchers[w]) =>
                watchers'[w].clusterName = call[g].clusterName]_vars

C9_Witness ==
  \E g \in Goroutines :
    /\ call[g].pc = "S_Unlock"
    /\ \E cn \in Clusters \ {call[g].clusterName} :
         observers[cn] # None /\ Live(observers[cn])

\* C10: on a fresh Manager with one caller at a time, Observe(A, C1) builds
\* W1 for C1; Observe(A, C1) again returns W1 and builds nothing;
\* Observe(A, C2), C2 not Equal to C1, stops W1 and builds W2 for C2;
\* StopObserving(A) stops W2 and removes the entry; List() is then empty.
C10_Scenario ==
  /\ scen \in {1, 2, 3, 4} =>
       \A g \in Goroutines :
         call[g].pc = "O_Return" =>
           /\ Len(watchers) = 1
           /\ call[g].result = 1
           /\ watchers[1].clusterName = call[g].clusterName
           /\ Equal(watchers[1].esClient, call[g].esClient)
           /\ (scen = 1 => watchers[1].esClient = call[g].esClient)
           /\ Live(1)
           /\ observers[call[g].clusterName] = 1
  /\ scen \in {2, 4} =>
       /\ Len(watchers) = 1
       /\ Live(1)
       /\ observers[watchers[1].clusterName] = 1
  /\ scen = 5 =>
       \A g \in Goroutines :
         call[g].pc = "O_Return" =>
           /\ Len(watchers) = 2
           /\ Stopped(1)
           /\ call[g].result = 2
           /\ watchers[2].clusterName = call[g].clusterName
           /\ watchers[2].esClient = call[g].esClient
           /\ ~Equal(watchers[2].esClient, watchers[1].esClient)
           /\ Live(2)
           /\ observers[call[g].clusterName] = 2
  /\ scen = 6 => (Len(watchers) = 2 /\ Stopped(1) /\ Live(2)
                  /\ observers[watchers[1].clusterName] = 2)
  /\ scen \in {8, 9, 10} =>
       /\ Len(watchers) = 2
       /\ Stopped(1)
       /\ Stopped(2)
       /\ \A cn \in Clusters : observers[cn] = None
  /\ scen = 9 =>
       \A g \in Goroutines : call[g].pc = "L_Return" => call[g].list = {}

C10_Witness == scen = 10

\* C11 as stated: while List holds the read lock, the names it has collected
\* are exactly the cluster names that have an observer that is not stopped.
C11_ListsLiveNames ==
  \A g \in Goroutines :
    call[g].pc = "L_RUnlock" =>
      call[g].list = {cn \in Clusters : LiveObserversOf(cn) # {}}

\* C11 amended: while List holds the read lock, the names it has collected
\* are exactly the names that have an entry in the map, and no step of List
\* changes the map or an observer.
C11_ListsRegisteredNames ==
  /\ [](\A g \in Goroutines :
          call[g].pc = "L_RUnlock" =>
            call[g].list = {cn \in Clusters : observers[cn] # None})
  /\ [][\A g \in Goroutines :
          (call[g].op = "List" /\ call'[g] # call[g]) =>
            (observers' = observers /\ watchers' = watchers)]_vars

\* List holds the read lock with a name whose entry is a stopped observer.
C11_Witness ==
  \E g \in Goroutines :
    /\ call[g].pc = "L_RUnlock"
    /\ \E cn \in call[g].list : Stopped(observers[cn])

\* C12: an entry of the map is an observer built for that very name, and
\* every step that changes the map is taken by a goroutine that holds the
\* write lock afterwards, with no reader inside and nobody holding the lock
\* before.
C12_MutationUnderWriteLock ==
  /\ [](\A cn \in Clusters :
          observers[cn] # None =>
            (observers[cn] \in WatcherIds /\ watchers[observers[cn]].clusterName = cn))
  /\ [][observers' # observers =>
          \E g \in Goroutines :
            /\ call'[g] # call[g]
            /\ lock.writer = NoName
            /\ lock.readers = {}
            /\ lock'.writer = g
            /\ lock'.readers = {}]_vars

\* A createObserver holds the write lock for a name while the other
\* goroutine waits to delete the entry of the same name.
C12_Witness ==
  \E g, h \in Goroutines :
    /\ call[g].pc = "C_Unlock"
    /\ lock.writer = g
    /\ call[h].pc = "S_Lock"
    /\ call[h].clusterName = call[g].clusterName

\* C13: an Observe call whose lookup finds an observer with an Equal client
\* returns that observer, has built nothing and stopped nothing, and none of
\* its steps changes the map, an observer or the writer of the lock.
C13_HotPath ==
  /\ [](\A g \in Goroutines :
          (call[g].pc = "O_Return" /\ call[g].newObserver = None) =>
            /\ call[g].exists
            /\ Equal(watchers[call[g].observer].esClient, call[g].esClient)
            /\ call[g].result = call[g].observer
            /\ ~call[g].stopExists)
  /\ [][\A g \in Goroutines :
          /\ (call[g].pc = "O_RUnlock" /\ call'[g] # call[g] /\ call[g].exists
              /\ Equal(watchers[call[g].observer].esClient, call[g].esClient)) =>
               call'[g].pc = "O_Return"
          /\ ((call[g].pc \in {"O_RLock", "O_RUnlock"}
               \/ (call[g].pc = "O_Return" /\ call[g].newObserver = None))
              /\ call'[g] # call[g]) =>
               /\ observers' = observers
               /\ watchers' = watchers
               /\ lock'.writer = lock.writer]_vars

\* Observe returns an observer it found, built with another client pointer.
C13_Witness ==
  \E g \in Goroutines :
    /\ call[g].pc = "O_Return"
    /\ call[g].newObserver = None
    /\ watchers[call[g].result].esClient # call[g].esClient

\* C14: once the replacing branch of Observe has built its new observer, the
\* observer its lookup found has been stopped and is no longer the map's
\* entry, so the two are never running together.
C14_OldStoppedBeforeNew ==
  \A g \in Goroutines :
    (call[g].op = "Observe" /\ call[g].exists /\ call[g].newObserver # None) =>
      /\ Stopped(call[g].observer)
      /\ observers[call[g].clusterName] # call[g].observer

\* C15: the entry the delete of StopObserving removes, if any, is the
\* observer this call looked up and stopped, never an observer still running.
C15_DeletesOnlyItsOwn ==
  [][\A g \in Goroutines :
       (call[g].pc = "S_Lock" /\ call'[g].pc = "S_Unlock"
        /\ observers[call[g].clusterName] # None) =>
         /\ observers[call[g].clusterName] = call[g].stopObserver
         /\ Stopped(observers[call[g].clusterName])]_vars

\* C16: createObserver builds exactly one observer, running and bound to the
\* name and client of the call; its insert, under the write lock, makes that
\* observer the entry of the name whatever was there and stops nothing; the
\* entry stays while the lock is held and the observer is what is returned.
C16_CreateOverwrites ==
  /\ [](\A g \in Goroutines :
          /\ call[g].pc = "C_Unlock" =>
               (observers[call[g].clusterName] = call[g].newObserver
                /\ lock.writer = g)
          /\ (call[g].pc = "O_Return" /\ call[g].newObserver # None) =>
               call[g].result = call[g].newObserver)
  /\ [][\A g \in Goroutines :
          /\ (call[g].pc = "C_New" /\ call'[g] # call[g]) =>
               /\ watchers' = Append(watchers,
                                     [clusterName |-> call[g].clusterName,
                                      esClient |-> call[g].esClient,
                                      stopped |-> FALSE])
               /\ call'[g].newObserver = Len(watchers')
               /\ observers' = observers
          /\ (call[g].pc = "C_Lock" /\ call'[g] # call[g]) =>
               /\ observers' = [observers EXCEPT
                                  ![call[g].clusterName] = call[g].newObserver]
               /\ watchers' = watchers
          /\ (call[g].pc = "C_Unlock" /\ call'[g] # call[g]) =>
               (observers' = observers /\ watchers' = watchers)]_vars

\* Two creates for one name raced: the observer g inserted last is the
\* entry, and the observer h had inserted before is displaced, still running.
C16_Witness ==
  \E g, h \in Goroutines :
    /\ call[g].pc = "C_Unlock"
    /\ call[h].pc = "O_Return"
    /\ call[h].newObserver # None
    /\ call[h].clusterName = call[g].clusterName
    /\ Live(call[h].newObserver)
    /\ observers[call[g].clusterName] = call[g].newObserver

\* The state both teardown triggers must end in, from the state the path
\* began in: w1 stopped, one more observer, running and bound to the name
\* and client of the Observe call, registered under the name and returned,
\* everything else as it was.
TwinEnd(g) ==
  /\ watchers = Append([twin.ws EXCEPT ![twin.w1].stopped = TRUE],
                       [clusterName |-> call[g].clusterName,
                        esClient |-> call[g].esClient,
                        stopped |-> FALSE])
  /\ observers = [twin.obs EXCEPT ![call[g].clusterName] = Len(twin.ws) + 1]
  /\ call[g].result = Len(twin.ws) + 1
  /\ lock = [readers |-> {}, writer |-> NoName]

\* C17: from a state where name A has a running observer W1 bound to C1,
\* with one caller at a time, Observe(A, C2) alone and StopObserving(A)
\* followed by Observe(A, C2), C2 not Equal to C1, return in the same state.
C17_SameEndState ==
  \A g \in Goroutines :
    (call[g].pc = "O_Return" /\ twin.path \in {1, 4}) => TwinEnd(g)

\* The second Observe of StopObserving(A); Observe(A, C2) is about to return.
C17_Witness ==
  \E g \in Goroutines : call[g].pc = "O_Return" /\ twin.path = 4

\* C18: the observer an Observe call returns was built for the name of the
\* call and its client is Equal to the client the call supplied.
C18_ReturnsMatchingObserver ==
  \A g \in Goroutines :
    call[g].pc = "O_Return" =>
      /\ call[g].result \in WatcherIds
      /\ watchers[call[g].result].clusterName = call[g].clusterName
      /\ Equal(watchers[call[g].result].esClient, call[g].esClient)

\* An Observe call returns the observer it built in the replacing branch,
\* after the observer it had found was stopped.
C18_Witness ==
  \E g \in Goroutines :
    /\ call[g].pc = "O_Return"
    /\ call[g].exists
    /\ Stopped(call[g].observer)
    /\ call[g].result = call[g].newObserver
    /\ call[g].newObserver # None

\* C19: a goroutine holds the read lock only between a lookup and the
\* RUnlock that follows it and the write lock only between a map update and
\* the Unlock that follows it, so it never asks for the lock while holding
\* it nor blocks or returns with it; and every call that has begun returns.
C19_EveryCallReturns ==
  /\ [](\A g \in Goroutines :
          /\ g \in lock.readers => call[g].pc \in {"O_RUnlock", "S_RUnlock", "L_RUnlock"}
          /\ lock.writer = g => call[g].pc \in {"C_Unlock", "S_Unlock"})
  /\ \A g \in Goroutines : (call[g].pc # "idle") ~> (call[g].pc = "idle")

\* A goroutine waits for the write lock while the other holds the read lock.
C19_Witness ==
  \E g, h \in Goroutines :
    /\ call[g].pc \in {"C_Lock", "S_Lock"}
    /\ h \in lock.readers
====
